---- MODULE Spec2Model ----
(***************************************************************************)
(* Model of the image ingestion and transformation-dispatch pipeline of    *)
(* server_fastapi: the two handlers of routes/ai.py (cartoonize and        *)
(* remove_background), ImageProcessor.process_image, and ReplicateService  *)
(* (model dispatch, the inference call and _extract_url).                  *)
(*                                                                         *)
(* Two specifications share the module:                                    *)
(*   Spec         one request through a handler, from the parsed form      *)
(*                fields to the response envelope;                         *)
(*   SpecExtract  _extract_url applied to inference outputs that are built *)
(*                value by value on a heap (so that cyclic outputs exist). *)
(***************************************************************************)
EXTENDS Integers, Sequences, FiniteSets, TLC

(***************************************************************************)
(* Python text.  A str is a sequence of tokens; the two prefixes that the  *)
(* code tests with str.startswith are single tokens, so startswith is a    *)
(* test of the first token.                                                *)
(***************************************************************************)
HttpPrefixes == {"http://", "https://"}

startswith(s, prefixes) == Len(s) > 0 /\ s[1] \in prefixes

UrlA == <<"https://", "x/y.png">>
UrlB == <<"http://", "cdn/z.png">>

\* Optional[str]: None, or a str.
None == [present |-> FALSE, text |-> <<>>]
Some(t) == [present |-> TRUE, text |-> t]

\* Python truthiness of an Optional[str]: None and "" are falsy.
Truthy(o) == o.present /\ Len(o.text) > 0

\* The outcome of a call: a returned Optional[str], or a raised exception.
Return(v) == [exc |-> "none", val |-> v]
Raise(e) == [exc |-> e, val |-> None]

(***************************************************************************)
(* Python values held by an inference output.  A value lives in a heap     *)
(* (a sequence of nodes addressed by index); lists and dicts hold indexes, *)
(* so an output may refer back to itself.                                  *)
(***************************************************************************)
PyStr(t) == [kind |-> "str", text |-> t]
PyList(items) == [kind |-> "list", items |-> items]
PyDict(entries) == [kind |-> "dict", entries |-> entries]
PyNone == [kind |-> "none"]
\* Any other object: whether it has a `url` attribute ("missing", "callable",
\* "data"), what calling url() does, and what str() of it does.
\* A call outcome here is [raises, isstr, text].
PyObj(url_attr, url_ret, str_ret) ==
    [kind |-> "obj", url_attr |-> url_attr, url_ret |-> url_ret, str_ret |-> str_ret]
Raises == [raises |-> TRUE, isstr |-> FALSE, text |-> <<>>]
GivesStr(t) == [raises |-> FALSE, isstr |-> TRUE, text |-> t]
GivesOther == [raises |-> FALSE, isstr |-> FALSE, text |-> <<>>]

\* str(result): the textual rendering of a value.  Only an empty list reaches
\* str() in _extract_url (a non-empty one has returned before), and a dict
\* renders with an opening brace whatever it holds.
PyStrOf(v) ==
    CASE v.kind = "str" -> GivesStr(v.text)
      [] v.kind = "list" -> GivesStr(<<"[", "]">>)
      [] v.kind = "dict" -> GivesStr(<<"{", "}">>)
      [] v.kind = "none" -> GivesStr(<<"None">>)
      [] OTHER -> v.str_ret

(***************************************************************************)
(* ReplicateService._extract_url                                           *)
(***************************************************************************)
KeyOrder == <<"url", "image", "output", "result", "href">>

MaxNodes == 3

\* The interpreter's recursion limit (1000 frames by default), scaled to the
\* model: above the depth of every acyclic output of at most MaxNodes values
\* (and one more), so that only unbounded recursion reaches it.
RecursionLimit == MaxNodes + 2

RECURSIVE _extract_url(_, _, _)
RECURSIVE probe_keys(_, _, _, _)

\* lines 116-134: the url() accessor, then str(), then None.
extract_fallback(result) ==
    LET acc == IF result.kind = "obj" /\ result.url_attr = "callable"
               THEN result.url_ret ELSE Raises
        viaUrl == /\ result.kind = "obj" /\ result.url_attr = "callable"
                  /\ ~acc.raises /\ acc.isstr /\ startswith(acc.text, HttpPrefixes)
        s == PyStrOf(result)
        viaStr == ~s.raises /\ startswith(s.text, HttpPrefixes)
    IN  IF viaUrl THEN Return(Some(acc.text))
        ELSE IF viaStr THEN Return(Some(s.text))
        ELSE Return(None)

\* A loop that returns what the first present key gives, URL or not.
probe_keys_first_present(heap, result, i, depth) ==
    IF i > Len(KeyOrder) THEN Return(None)
    ELSE IF KeyOrder[i] \in DOMAIN result.entries
    THEN _extract_url(heap, result.entries[KeyOrder[i]], depth + 1)
    ELSE probe_keys(heap, result, i + 1, depth)

\* A loop that probes the keys from the last to the first.
probe_keys_reversed(heap, result, i, depth) ==
    IF i > Len(KeyOrder) THEN Return(None)
    ELSE LET key == KeyOrder[Len(KeyOrder) + 1 - i] IN
         IF key \in DOMAIN result.entries
         THEN LET url_candidate == _extract_url(heap, result.entries[key], depth + 1) IN
              IF url_candidate.exc # "none" THEN url_candidate
              ELSE IF Truthy(url_candidate.val) THEN url_candidate
              ELSE probe_keys(heap, result, i + 1, depth)
         ELSE probe_keys(heap, result, i + 1, depth)

\* lines 110-114: the loop over the probed keys, from position i on.
probe_keys(heap, result, i, depth) ==
    IF i > Len(KeyOrder) THEN Return(None)
    ELSE LET key == KeyOrder[i] IN
         IF key \in DOMAIN result.entries
         THEN LET url_candidate == _extract_url(heap, result.entries[key], depth + 1) IN
              IF url_candidate.exc # "none" THEN url_candidate
              ELSE IF Truthy(url_candidate.val) THEN url_candidate
              ELSE probe_keys(heap, result, i + 1, depth)
         ELSE probe_keys(heap, result, i + 1, depth)

\* An extractor that goes on to the second element of a sequence when the
\* first yields nothing.
_extract_url_scanning(heap, id, depth) ==
    IF depth >= RecursionLimit THEN Raise("RecursionError")
    ELSE LET result == heap[id] IN
         IF result.kind = "str" /\ startswith(result.text, HttpPrefixes)
         THEN Return(Some(result.text))
         ELSE IF result.kind = "list" /\ Len(result.items) > 0
         THEN LET first == _extract_url(heap, result.items[1], depth + 1) IN
              IF first.exc # "none" \/ Truthy(first.val) \/ Len(result.items) = 1
              THEN first
              ELSE _extract_url(heap, result.items[2], depth + 1)
         ELSE LET probed == IF result.kind = "dict"
                            THEN probe_keys(heap, result, 1, depth)
                            ELSE Return(None)
              IN  IF probed.exc # "none" \/ Truthy(probed.val) THEN probed
                  ELSE extract_fallback(result)

\* lines 90-134.  depth counts the frames of _extract_url on the stack.
_extract_url(heap, id, depth) ==
    IF depth >= RecursionLimit THEN Raise("RecursionError")
    ELSE LET result == heap[id] IN
         IF result.kind = "str" /\ startswith(result.text, HttpPrefixes)
         THEN Return(Some(result.text))
         ELSE IF result.kind = "list" /\ Len(result.items) > 0
         THEN _extract_url(heap, result.items[1], depth + 1)
         ELSE LET probed == IF result.kind = "dict"
                            THEN probe_keys(heap, result, 1, depth)
                            ELSE Return(None)
              IN  IF probed.exc # "none" \/ Truthy(probed.val) THEN probed
                  ELSE extract_fallback(result)


(***************************************************************************)
(* Image bytes and ImageProcessor.process_image                            *)
(***************************************************************************)
NoBuffer == [kind |-> "None"]
EmptyBytes == [kind |-> "empty"]
Garbage == [kind |-> "garbage"]
Img(mode, w, h) == [kind |-> "image", mode |-> mode, width |-> w, height |-> h]

\* A test for empty bytes only, as `len(image_buffer) == 0` would be.
not_buffer_empty_only(b) == b.kind = "empty"

\* Python's `not image_buffer`: None and b"" are falsy.
not_buffer(b) == b.kind \in {"None", "empty"}

max_dimension == 2048

Abs(n) == IF n < 0 THEN -n ELSE n

\* Image.thumbnail((m, m)) on a w x h image with w > m or h > m: the size that
\* preserves the aspect ratio, the scaled side being the nearer of floor and
\* ceil, at least 1.  The library compares the two candidates in floating
\* point; where they are exactly equally near, rounding decides, and `tie`
\* is the candidate it then picks.
TieBreaks == {"floor", "ceil"}

Nearer(lo, hi, dlo, dhi, tie) ==
    IF dlo < dhi \/ (dlo = dhi /\ tie = "floor") THEN lo ELSE hi

thumbnail_size(w, h, m, tie) ==
    IF h >= w
    THEN LET lo == (m * w) \div h
             hi == IF (m * w) % h = 0 THEN lo ELSE lo + 1
             x == Nearer(lo, hi, Abs(w * m - lo * h), Abs(w * m - hi * h), tie)
         IN  [width |-> IF x < 1 THEN 1 ELSE x, height |-> m]
    ELSE LET lo == (m * h) \div w
             hi == IF (m * h) % w = 0 THEN lo ELSE lo + 1
             y == IF lo = 0 THEN lo
                  ELSE Nearer(lo, hi, Abs(w * lo - m * h) * hi, Abs(w * hi - m * h) * lo, tie)
         IN  [width |-> m, height |-> IF y < 1 THEN 1 ELSE y]

DataUri(mode, w, h) ==
    [mime |-> "image/png", encoding |-> "base64", mode |-> mode, width |-> w, height |-> h]
NoUri == [mime |-> "none"]

\* A process_image that resizes only when both sides exceed the maximum.
process_image_both_exceed(buffer, max_dim, tie) ==
    IF buffer.kind # "image"
    THEN [exc |-> "ValueError", text |-> <<"Image processing failed: ", "cannot identify image file">>,
          uri |-> NoUri]
    ELSE LET mode == IF buffer.mode \notin {"RGB", "RGBA"} THEN "RGB" ELSE buffer.mode
             size == IF buffer.width > max_dim /\ buffer.height > max_dim
                     THEN thumbnail_size(buffer.width, buffer.height, max_dim, tie)
                     ELSE [width |-> buffer.width, height |-> buffer.height]
         IN  [exc |-> "none", text |-> <<>>, uri |-> DataUri(mode, size.width, size.height)]

\* process_image: [exc, uri].  Anything that is not a decodable image makes
\* Image.open raise, and the method re-raises it as ValueError.
process_image(buffer, max_dim, tie) ==
    IF buffer.kind # "image"
    THEN [exc |-> "ValueError", text |-> <<"Image processing failed: ", "cannot identify image file">>,
          uri |-> NoUri]
    ELSE LET mode == IF buffer.mode \notin {"RGB", "RGBA"} THEN "RGB" ELSE buffer.mode
             size == IF buffer.width > max_dim \/ buffer.height > max_dim
                     THEN thumbnail_size(buffer.width, buffer.height, max_dim, tie)
                     ELSE [width |-> buffer.width, height |-> buffer.height]
         IN  [exc |-> "none", text |-> <<>>, uri |-> DataUri(mode, size.width, size.height)]

(***************************************************************************)
(* The meta form field: JSON text, json.loads and the styleId lookup       *)
(***************************************************************************)
JNull == [kind |-> "null"]
JNum(n) == [kind |-> "number", n |-> n]
JString(s) == [kind |-> "string", s |-> s]
JArray == [kind |-> "array"]
JObject(members) == [kind |-> "object", members |-> members]

\* A text of the meta field: empty, not JSON, or the text of a JSON document.
MetaEmpty == [empty |-> TRUE, wellformed |-> FALSE, doc |-> JNull]
MetaMalformed == [empty |-> FALSE, wellformed |-> FALSE, doc |-> JNull]
MetaJson(doc) == [empty |-> FALSE, wellformed |-> TRUE, doc |-> doc]

NoMeta == [present |-> FALSE, text |-> MetaEmpty]
Meta(t) == [present |-> TRUE, text |-> t]

\* Python's `if meta:`: None and "" are falsy.
meta_truthy(meta) == meta.present /\ ~meta.text.empty

DefaultStyle == JString("toon_ink")

\* lines 70-75 of routes/ai.py: [exc, style_id].  json.loads raises
\* JSONDecodeError on text that is not JSON, which the handler swallows; .get
\* exists on a dict only, so any other document raises AttributeError.
parse_style(meta) ==
    IF ~meta_truthy(meta) THEN [exc |-> "none", style_id |-> DefaultStyle]
    ELSE IF ~meta.text.wellformed THEN [exc |-> "none", style_id |-> DefaultStyle]
    ELSE LET meta_dict == meta.text.doc IN
         IF meta_dict.kind # "object"
         THEN [exc |-> "AttributeError", style_id |-> DefaultStyle]
         ELSE [exc |-> "none",
               style_id |-> IF "styleId" \in DOMAIN meta_dict.members
                            THEN meta_dict.members["styleId"]
                            ELSE DefaultStyle]

(***************************************************************************)
(* ReplicateService: model dispatch                                        *)
(***************************************************************************)
ModelMochi == "catacolabs/cartoonify:043a7a0b"
ModelAnime == "qwen-edit-apps/qwen-image-edit-plus-lora-photo-to-anime"
ModelInk == "flux-kontext-apps/cartoonify:398ba4a9"
ModelRemoveBg == "851-labs/background-remover:a029dff3"

is_style(style_id, name) == style_id.kind = "string" /\ style_id.s = name

\* A dispatch whose default branch sends the payload of toon_mochi.
dispatch_cartoonize_default_mochi(image_uri, style_id) ==
    IF is_style(style_id, "toon_anime")
    THEN [model |-> ModelAnime,
          input |-> [image |-> <<image_uri>>, aspect_ratio |-> "match_input_image",
                     output_format |-> "png", go_fast |-> TRUE]]
    ELSE IF is_style(style_id, "toon_ink")
    THEN [model |-> ModelInk,
          input |-> [input_image |-> image_uri, aspect_ratio |-> "match_input_image"]]
    ELSE [model |-> ModelMochi, input |-> [image |-> image_uri]]

\* ReplicateService.cartoonize, lines 27-44.
dispatch_cartoonize(image_uri, style_id) ==
    IF is_style(style_id, "toon_mochi")
    THEN [model |-> ModelMochi, input |-> [image |-> image_uri]]
    ELSE IF is_style(style_id, "toon_anime")
    THEN [model |-> ModelAnime,
          input |-> [image |-> <<image_uri>>, aspect_ratio |-> "match_input_image",
                     output_format |-> "png", go_fast |-> TRUE]]
    ELSE [model |-> ModelInk,
          input |-> [input_image |-> image_uri, aspect_ratio |-> "match_input_image"]]

\* ReplicateService.remove_background, lines 70-75.
dispatch_remove_background(image_uri) ==
    [model |-> ModelRemoveBg,
     input |-> [image |-> image_uri, format |-> "png", background_type |-> "rgba"]]

Dispatch(op, image_uri, style_id) ==
    IF op = "cartoonize" THEN dispatch_cartoonize(image_uri, style_id)
    ELSE dispatch_remove_background(image_uri)

NoInvocation == [model |-> "none"]


(***************************************************************************)
(* Exceptions, the response envelope (models.AIResponse) and the handlers' *)
(* two error paths                                                         *)
(***************************************************************************)
Exc(type, text) == [type |-> type, text |-> text]
NoExc == Exc("none", <<>>)

NoResponse == [kind |-> "none"]

Envelope(status, success, url, message, errorCode, error) ==
    [kind |-> "envelope", status |-> status, success |-> success, url |-> url,
     message |-> message, errorCode |-> errorCode, error |-> error]

\* routes/ai.py lines 57-65 and 143-151.
upload_failed_response ==
    Envelope(400, FALSE, None, Some(<<"no image uploaded or invalid image link">>),
             Some(<<"UPLOAD_FAILED">>), None)

\* An exception that leaves the handler: the framework's fault, no envelope.
handler_reraise(op, e) == [kind |-> "unhandled", exc |-> e.type]

\* routes/ai.py lines 93-108 and 169-184: `except Exception as e`.
handler_except(op, e) ==
    Envelope(500, FALSE, None,
             Some(IF op = "cartoonize" THEN <<"AI cartoon failed">> ELSE <<"AI remove-bg failed">>),
             Some(<<"AI_ERROR">>), Some(e.text))

\* routes/ai.py lines 87-91 and 163-167.
success_response(url) == Envelope(200, TRUE, url, None, None, None)

\* httpx.Response.raise_for_status as the handlers use it (lines 53 and 139):
\* the exception raised for a status, NoExc for a 2xx one.
status_class(status) ==
    CASE status < 200 -> "Informational response"
      [] status < 400 -> "Redirect response"
      [] status < 500 -> "Client error"
      [] OTHER -> "Server error"

raise_for_status_lenient(status) ==
    IF status < 500 THEN NoExc
    ELSE Exc("HTTPStatusError", <<status_class(status), ToString(status), "for url">>)

raise_for_status(status) ==
    IF status >= 200 /\ status < 300 THEN NoExc
    ELSE Exc("HTTPStatusError", <<status_class(status), ToString(status), "for url">>)

\* ReplicateService.cartoonize lines 54-58 (remove_background lines 83-88):
\* what the service method does with the outcome of _extract_url.
service_return_unchecked(extracted) == extracted

service_return(extracted) ==
    IF extracted.exc # "none" THEN extracted
    ELSE IF ~Truthy(extracted.val) THEN Raise("ValueError")
    ELSE Return(extracted.val)

\* str(e) of what the service method raises.
service_exc(outcome) ==
    IF outcome.exc = "ValueError"
    THEN Exc("ValueError", <<"AI succeeded but missing url. Output: ">>)
    ELSE Exc(outcome.exc, <<"maximum recursion depth exceeded">>)

(***************************************************************************)
(* config.get_settings: the settings object, built once and cached         *)
(***************************************************************************)
NoSettings == [loaded |-> FALSE, replicate_api_token |-> "", max_dimension |-> 0]

get_settings(cache, token) ==
    IF cache.loaded THEN cache
    ELSE [loaded |-> TRUE, replicate_api_token |-> token, max_dimension |-> max_dimension]


(***************************************************************************)
(* State                                                                   *)
(***************************************************************************)
VARIABLES
    req,            \* per request: the parsed form fields (op, image, imageUrl, meta)
    pc,             \* per request: where its handler stands
    image_buffer,   \* per request: the handler's image_buffer
    style_id,       \* per request: the handler's style_id
    image_uri,      \* per request: the data URI process_image returned
    invocation,     \* per request: the (model, input) passed to client.run
    output,         \* per request: what client.run returned
    response,       \* per request: the response sent
    fetched,        \* per request: the status of every GET issued for imageUrl
    trace,          \* per request: the stages entered, in order
    failed_at,      \* per request: the stage that raised, "none" if none did
    replies,        \* per request: what the outside world answered to it so far
    env_token,      \* REPLICATE_API_TOKEN of the process environment
    settings_cache, \* the lru_cache of get_settings
    x_heap,         \* SpecExtract: the values of the output under construction
    x_root,         \* SpecExtract: the output itself (an index of x_heap)
    x_reach,        \* SpecExtract: per value, the URL it was built around
    x_cyclic,       \* SpecExtract: some value refers back to itself
    x_phase,        \* SpecExtract: "build", then "done"
    x_result,       \* SpecExtract: the outcome of _extract_url(output)
    n_buffer,       \* SpecNormalize: the bytes given to process_image
    n_max,          \* SpecNormalize: the configured max_dimension
    n_phase,        \* SpecNormalize: "ready", then "done"
    n_result,       \* SpecNormalize: what process_image returned or raised
    c_store,        \* SpecCategories: the rows of product_categories, a row's id its position
    c_answer,       \* SpecCategories: what the last call answered
    c_wrote         \* SpecCategories: the last call changed the store

req_vars == <<req, pc, image_buffer, style_id, image_uri, invocation, output, response,
              fetched, trace, failed_at, replies, env_token, settings_cache>>
x_vars == <<x_heap, x_root, x_reach, x_cyclic, x_phase, x_result>>
n_vars == <<n_buffer, n_max, n_phase, n_result>>
c_vars == <<c_store, c_answer, c_wrote>>
vars == <<req_vars, x_vars, n_vars, c_vars>>

(***************************************************************************)
(* The requests and the replies of the outside world                       *)
(***************************************************************************)
NoUpload == [present |-> FALSE, bytes |-> NoBuffer]
Upload(bytes) == [present |-> TRUE, bytes |-> bytes]

LargeImage == Img("RGB", 4000, 3000)
SmallImage == Img("L", 640, 480)

Uploads == {NoUpload, Upload(EmptyBytes), Upload(LargeImage), Upload(SmallImage),
            Upload(Garbage)}

\* imageUrl: absent, the empty string, or a URL.
ImageUrls == {None, Some(<<>>), Some(<<"https://", "img/src.jpg">>)}

StyleValues == {JString("toon_ink"), JString("toon_mochi"), JString("toon_anime"),
                JString("watercolor"), JNull, JNum(7)}

Metas ==
    {NoMeta, Meta(MetaEmpty), Meta(MetaMalformed)}
    \cup {Meta(MetaJson(d)) : d \in {JNull, JNum(5), JArray, JString("toon_mochi")}}
    \cup {Meta(MetaJson(JObject(<<>>)))}
    \cup {Meta(MetaJson(JObject([k \in {"styleId"} |-> v]))) : v \in StyleValues}

RequestSet ==
    {[op |-> "cartoonize", image |-> i, imageUrl |-> u, meta |-> m] :
        i \in Uploads, u \in ImageUrls, m \in Metas}
    \cup {[op |-> "remove_background", image |-> i, imageUrl |-> u, meta |-> NoMeta] :
        i \in Uploads, u \in ImageUrls}

\* What a GET of imageUrl may answer.
HttpStatuses == {200, 302, 404, 500}
HttpBodies == {EmptyBytes, LargeImage, Garbage}

\* What client.run may return.
Out(heap, root) == [heap |-> heap, root |-> root]
NoOutput == Out(<<>>, 0)
FileOutput == PyObj("callable", GivesStr(UrlA), GivesStr(UrlA))
SampleOutputs ==
    {Out(<<PyStr(UrlA)>>, 1),
     Out(<<PyList(<<2>>), FileOutput>>, 1),
     Out(<<PyDict([k \in {"output"} |-> 2]), PyDict([k \in {"url"} |-> 3]), PyStr(UrlB)>>, 1),
     Out(<<PyList(<<>>)>>, 1),
     Out(<<PyNone>>, 1),
     Out(<<PyDict([k \in {"status"} |-> 2]), PyStr(<<"succeeded">>)>>, 1)}

\* The replies a request has received: of the upload read, of the GET, of the
\* library's rounding in thumbnail, and of client.run.
NoGet == [kind |-> "none", status |-> 0, body |-> NoBuffer]
GetReply(status, body) == [kind |-> "reply", status |-> status, body |-> body]
GetFailed == [kind |-> "connect_error", status |-> 0, body |-> NoBuffer]
NoRun == [kind |-> "none", out |-> NoOutput]
RunReply(o) == [kind |-> "output", out |-> o]
RunFailed == [kind |-> "error", out |-> NoOutput]
NoReplies == [read |-> "none", get |-> NoGet, tie |-> "none", run |-> NoRun]

Requests == {"r1"}

IdleNormalize ==
    /\ n_buffer = NoBuffer
    /\ n_max = max_dimension
    /\ n_phase = "idle"
    /\ n_result = [exc |-> "none", text |-> <<>>, uri |-> NoUri]

IdleCategories ==
    /\ c_store = <<>>
    /\ c_answer = [op |-> "none", status |-> 0, detail |-> "none"]
    /\ c_wrote = FALSE

IdleExtract ==
    /\ x_heap = <<>>
    /\ x_root = 0
    /\ x_reach = <<>>
    /\ x_cyclic = FALSE
    /\ x_phase = "idle"
    /\ x_result = Return(None)

Init ==
    /\ req \in [Requests -> RequestSet]
    /\ pc = [r \in Requests |-> "start"]
    /\ image_buffer = [r \in Requests |-> NoBuffer]
    /\ style_id = [r \in Requests |-> DefaultStyle]
    /\ image_uri = [r \in Requests |-> NoUri]
    /\ invocation = [r \in Requests |-> NoInvocation]
    /\ output = [r \in Requests |-> NoOutput]
    /\ response = [r \in Requests |-> NoResponse]
    /\ fetched = [r \in Requests |-> <<>>]
    /\ trace = [r \in Requests |-> <<>>]
    /\ failed_at = [r \in Requests |-> "none"]
    /\ replies = [r \in Requests |-> NoReplies]
    /\ env_token \in {"", "r8_token"}
    /\ settings_cache = NoSettings
    /\ IdleExtract
    /\ IdleNormalize
    /\ IdleCategories

(***************************************************************************)
(* The handlers, step by step                                              *)
(***************************************************************************)
Enter(r, stage) == trace' = [trace EXCEPT ![r] = Append(@, stage)]

\* The handler's except block: the request ends with the error envelope.
Fail(r, stage, e) ==
    /\ response' = [response EXCEPT ![r] = handler_except(req[r].op, e)]
    /\ failed_at' = [failed_at EXCEPT ![r] = stage]
    /\ pc' = [pc EXCEPT ![r] = "done"]

\* lines 44-47 / 130-133: `if image and image.file: image_buffer = await image.read()`.
ReadUpload(r) ==
    /\ pc[r] = "start"
    /\ req[r].image.present
    /\ Enter(r, "read")
    /\ \/ /\ image_buffer' = [image_buffer EXCEPT ![r] = req[r].image.bytes]
          /\ replies' = [replies EXCEPT ![r].read = "ok"]
          /\ pc' = [pc EXCEPT ![r] = "acquired"]
          /\ UNCHANGED <<response, failed_at>>
       \/ /\ Fail(r, "read", Exc("OSError", <<"read failed">>))
          /\ replies' = [replies EXCEPT ![r].read = "error"]
          /\ UNCHANGED image_buffer
    /\ UNCHANGED <<req, style_id, image_uri, invocation, output, fetched, env_token,
                   settings_cache, x_vars, n_vars, c_vars>>

\* lines 48-54 / 134-140: `elif imageUrl:` one GET, raise_for_status, the body.
FetchUrl(r) ==
    /\ pc[r] = "start"
    /\ ~req[r].image.present
    /\ Truthy(req[r].imageUrl)
    /\ Enter(r, "get")
    /\ \/ \E status \in HttpStatuses, body \in HttpBodies :
            /\ fetched' = [fetched EXCEPT ![r] = Append(@, status)]
            /\ replies' = [replies EXCEPT ![r].get = GetReply(status, body)]
            /\ LET e == raise_for_status(status) IN
               IF e.type # "none"
               THEN Fail(r, "get", e) /\ UNCHANGED image_buffer
               ELSE /\ image_buffer' = [image_buffer EXCEPT ![r] = body]
                    /\ pc' = [pc EXCEPT ![r] = "acquired"]
                    /\ UNCHANGED <<response, failed_at>>
       \/ /\ Fail(r, "get", Exc("ConnectError", <<"All connection attempts failed">>))
          /\ replies' = [replies EXCEPT ![r].get = GetFailed]
          /\ UNCHANGED <<image_buffer, fetched>>
    /\ UNCHANGED <<req, style_id, image_uri, invocation, output, env_token,
                   settings_cache, x_vars, n_vars, c_vars>>

\* Neither branch of lines 44-54 is taken: image_buffer stays None.
NoSource(r) ==
    /\ pc[r] = "start"
    /\ ~req[r].image.present
    /\ ~Truthy(req[r].imageUrl)
    /\ pc' = [pc EXCEPT ![r] = "acquired"]
    /\ UNCHANGED <<req, image_buffer, style_id, image_uri, invocation, output, response,
                   fetched, trace, failed_at, env_token, settings_cache, replies, x_vars, n_vars, c_vars>>

\* lines 56-75 (142-151 for remove_background): the UPLOAD_FAILED check, then
\* for cartoonize the style parsing.
CheckAndParse(r) ==
    /\ pc[r] = "acquired"
    /\ IF not_buffer(image_buffer[r])
       THEN /\ response' = [response EXCEPT ![r] = upload_failed_response]
            /\ pc' = [pc EXCEPT ![r] = "done"]
            /\ UNCHANGED <<style_id, trace, failed_at>>
       ELSE IF req[r].op = "cartoonize"
       THEN /\ Enter(r, "parse_meta")
            /\ LET p == parse_style(req[r].meta) IN
               IF p.exc # "none"
               THEN /\ Fail(r, "parse_meta",
                            Exc(p.exc, <<"object has no attribute 'get'">>))
                    /\ UNCHANGED style_id
               ELSE /\ style_id' = [style_id EXCEPT ![r] = p.style_id]
                    /\ pc' = [pc EXCEPT ![r] = "parsed"]
                    /\ UNCHANGED <<response, failed_at>>
       ELSE /\ pc' = [pc EXCEPT ![r] = "parsed"]
            /\ UNCHANGED <<style_id, trace, response, failed_at>>
    /\ UNCHANGED <<req, image_buffer, image_uri, invocation, output, fetched, env_token,
                   settings_cache, replies, x_vars, n_vars, c_vars>>

\* lines 78-79 / 154-155: ImageProcessor() and process_image.
Normalize(r) ==
    /\ pc[r] = "parsed"
    /\ Enter(r, "process_image")
    /\ \E tie \in TieBreaks :
       LET settings == get_settings(settings_cache, env_token)
           p == process_image(image_buffer[r], settings.max_dimension, tie)
       IN  /\ settings_cache' = settings
           /\ replies' = [replies EXCEPT ![r].tie = tie]
           /\ IF p.exc # "none"
              THEN Fail(r, "process_image", Exc(p.exc, p.text)) /\ UNCHANGED image_uri
              ELSE /\ image_uri' = [image_uri EXCEPT ![r] = p.uri]
                   /\ pc' = [pc EXCEPT ![r] = "normalized"]
                   /\ UNCHANGED <<response, failed_at>>
    /\ UNCHANGED <<req, image_buffer, style_id, invocation, output, fetched, env_token,
                   x_vars, n_vars, c_vars>>

\* line 82 / 158: ReplicateService(), which needs the API token.
Construct(r) ==
    /\ pc[r] = "normalized"
    /\ Enter(r, "ReplicateService")
    /\ LET settings == get_settings(settings_cache, env_token) IN
       /\ settings_cache' = settings
       /\ IF settings.replicate_api_token = ""
          THEN Fail(r, "ReplicateService", Exc("ValueError", <<"Missing REPLICATE_API_TOKEN">>))
          ELSE /\ pc' = [pc EXCEPT ![r] = "constructed"]
               /\ UNCHANGED <<response, failed_at>>
    /\ UNCHANGED <<req, image_buffer, style_id, image_uri, invocation, output, fetched,
                   env_token, replies, x_vars, n_vars, c_vars>>

\* A variant of Invoke that calls again after a failed call.
InvokeRetrying(r) ==
    /\ pc[r] = "constructed"
    /\ Len(trace[r]) < 8
    /\ Enter(r, "run")
    /\ invocation' = [invocation EXCEPT ![r] = Dispatch(req[r].op, image_uri[r], style_id[r])]
    /\ \/ \E o \in SampleOutputs :
            /\ output' = [output EXCEPT ![r] = o]
            /\ replies' = [replies EXCEPT ![r].run = RunReply(o)]
            /\ pc' = [pc EXCEPT ![r] = "invoked"]
       \/ /\ replies' = [replies EXCEPT ![r].run = RunFailed]
          /\ UNCHANGED <<output, pc>>
    /\ UNCHANGED <<req, image_buffer, style_id, image_uri, response, failed_at, fetched,
                   env_token, settings_cache, x_vars, n_vars, c_vars>>

\* ReplicateService.cartoonize lines 27-49 (remove_background lines 70-79):
\* dispatch and the one call of client.run, which returns an output or raises.
Invoke(r) ==
    /\ pc[r] = "constructed"
    /\ Enter(r, "run")
    /\ invocation' = [invocation EXCEPT ![r] = Dispatch(req[r].op, image_uri[r], style_id[r])]
    /\ \/ \E o \in SampleOutputs :
            /\ output' = [output EXCEPT ![r] = o]
            /\ replies' = [replies EXCEPT ![r].run = RunReply(o)]
            /\ pc' = [pc EXCEPT ![r] = "invoked"]
            /\ UNCHANGED <<response, failed_at>>
       \/ /\ Fail(r, "run", Exc("ReplicateError", <<"prediction failed">>))
          /\ replies' = [replies EXCEPT ![r].run = RunFailed]
          /\ UNCHANGED output
    /\ UNCHANGED <<req, image_buffer, style_id, image_uri, fetched, env_token,
                   settings_cache, x_vars, n_vars, c_vars>>

\* A variant of ExtractAndReturn in which the service keeps the output of
\* client.run in a place all requests share, so that a request may extract from
\* the output of another.
ExtractAndReturnShared(r) ==
    /\ pc[r] = "invoked"
    /\ Enter(r, "_extract_url")
    /\ \E q \in DOMAIN pc :
        /\ output[q] # NoOutput
        /\ LET url == service_return(_extract_url(output[q].heap, output[q].root, 0)) IN
           IF url.exc # "none"
           THEN Fail(r, "_extract_url", service_exc(url))
           ELSE /\ response' = [response EXCEPT ![r] = success_response(url.val)]
                /\ pc' = [pc EXCEPT ![r] = "done"]
                /\ UNCHANGED failed_at
    /\ UNCHANGED <<req, image_buffer, style_id, image_uri, invocation, output, fetched,
                   env_token, settings_cache, replies, x_vars, n_vars, c_vars>>

\* ReplicateService.cartoonize lines 54-58 and routes/ai.py lines 85-91:
\* extraction, the missing-url check, and the success response.
ExtractAndReturn(r) ==
    /\ pc[r] = "invoked"
    /\ Enter(r, "_extract_url")
    /\ LET url == service_return(_extract_url(output[r].heap, output[r].root, 0)) IN
       IF url.exc # "none"
       THEN Fail(r, "_extract_url", service_exc(url))
       ELSE /\ response' = [response EXCEPT ![r] = success_response(url.val)]
            /\ pc' = [pc EXCEPT ![r] = "done"]
            /\ UNCHANGED failed_at
    /\ UNCHANGED <<req, image_buffer, style_id, image_uri, invocation, output, fetched,
                   env_token, settings_cache, replies, x_vars, n_vars, c_vars>>

Next ==
    \/ \E r \in DOMAIN pc : ReadUpload(r)
    \/ \E r \in DOMAIN pc : FetchUrl(r)
    \/ \E r \in DOMAIN pc : NoSource(r)
    \/ \E r \in DOMAIN pc : CheckAndParse(r)
    \/ \E r \in DOMAIN pc : Normalize(r)
    \/ \E r \in DOMAIN pc : Construct(r)
    \/ \E r \in DOMAIN pc : Invoke(r)
    \/ \E r \in DOMAIN pc : ExtractAndReturn(r)

Spec == Init /\ [][Next]_vars

(***************************************************************************)
(* SpecConcurrent: two requests in flight at once, their steps interleaved *)
(***************************************************************************)
ConcurrentRequests == {"r1", "r2"}

\* One request of each way through the handlers: an upload, a URL, neither,
\* for both operations.
ConcurrentRequestSet ==
    {[op |-> "cartoonize", image |-> Upload(LargeImage), imageUrl |-> None,
      meta |-> Meta(MetaJson(JObject([k \in {"styleId"} |-> JString("toon_mochi")])))],
     [op |-> "cartoonize", image |-> NoUpload, imageUrl |-> Some(<<"https://", "img/src.jpg">>),
      meta |-> Meta(MetaJson(JArray))],
     [op |-> "cartoonize", image |-> NoUpload, imageUrl |-> None, meta |-> NoMeta],
     [op |-> "remove_background", image |-> Upload(SmallImage), imageUrl |-> None,
      meta |-> NoMeta],
     [op |-> "remove_background", image |-> NoUpload,
      imageUrl |-> Some(<<"https://", "img/src.jpg">>), meta |-> NoMeta]}

InitConcurrent ==
    /\ req \in [ConcurrentRequests -> ConcurrentRequestSet]
    /\ pc = [r \in ConcurrentRequests |-> "start"]
    /\ image_buffer = [r \in ConcurrentRequests |-> NoBuffer]
    /\ style_id = [r \in ConcurrentRequests |-> DefaultStyle]
    /\ image_uri = [r \in ConcurrentRequests |-> NoUri]
    /\ invocation = [r \in ConcurrentRequests |-> NoInvocation]
    /\ output = [r \in ConcurrentRequests |-> NoOutput]
    /\ response = [r \in ConcurrentRequests |-> NoResponse]
    /\ fetched = [r \in ConcurrentRequests |-> <<>>]
    /\ trace = [r \in ConcurrentRequests |-> <<>>]
    /\ failed_at = [r \in ConcurrentRequests |-> "none"]
    /\ replies = [r \in ConcurrentRequests |-> NoReplies]
    /\ env_token \in {"", "r8_token"}
    /\ settings_cache = NoSettings
    /\ IdleExtract
    /\ IdleNormalize
    /\ IdleCategories

SpecConcurrent == InitConcurrent /\ [][Next]_vars

(***************************************************************************)
(* SpecExtract: inference outputs built value by value, then extracted     *)
(***************************************************************************)
\* The values an output bottoms out in, each with the URL it carries by the
\* documented shapes (a URL string, an object whose url() gives a URL, an
\* object that renders as a URL), None when it carries none.
Leaf(node, url) == [node |-> node, url |-> url]
Leaves ==
    {Leaf(PyStr(UrlA), Some(UrlA)),
     Leaf(PyStr(UrlB), Some(UrlB)),
     Leaf(PyStr(<<"ftp://", "x/y.png">>), None),
     Leaf(PyNone, None),
     Leaf(PyList(<<>>), None),
     Leaf(PyObj("callable", GivesStr(UrlA), GivesStr(<<"<FileOutput>">>)), Some(UrlA)),
     Leaf(PyObj("callable", Raises, GivesStr(UrlB)), Some(UrlB)),
     Leaf(PyObj("callable", GivesOther, Raises), None)}

\* The keys the built mappings use: the first, a middle and the last of the
\* probed keys, and one that is not probed.
OutputKeys == {"url", "output", "href", "data"}

\* The values of the heap other than the output itself.
Others == 1..(Len(x_heap) - 1)

\* The URL a mapping carries by the documented rule: that of the first key, in
\* the priority order, whose value carries one.
carried_by_mapping(entries, reach) ==
    LET hits == {i \in 1..Len(KeyOrder) :
                    KeyOrder[i] \in DOMAIN entries /\ reach[entries[KeyOrder[i]]].present}
    IN  IF hits = {} THEN None
        ELSE reach[entries[KeyOrder[CHOOSE i \in hits : \A j \in hits : i <= j]]]

Grow(node, url) ==
    /\ x_phase = "build"
    /\ Len(x_heap) < MaxNodes
    /\ x_heap' = Append(x_heap, node)
    /\ x_reach' = Append(x_reach, url)
    /\ x_root' = Len(x_heap) + 1

InitExtract ==
    /\ \E l \in Leaves :
        /\ x_heap = <<l.node>>
        /\ x_reach = <<l.url>>
    /\ x_root = 1
    /\ x_cyclic = FALSE
    /\ x_phase = "build"
    /\ x_result = Return(None)
    /\ req = [r \in {} |-> NoUpload]
    /\ pc = [r \in {} |-> "start"]
    /\ image_buffer = [r \in {} |-> NoBuffer]
    /\ style_id = [r \in {} |-> DefaultStyle]
    /\ image_uri = [r \in {} |-> NoUri]
    /\ invocation = [r \in {} |-> NoInvocation]
    /\ output = [r \in {} |-> NoOutput]
    /\ response = [r \in {} |-> NoResponse]
    /\ fetched = [r \in {} |-> <<>>]
    /\ trace = [r \in {} |-> <<>>]
    /\ failed_at = [r \in {} |-> "none"]
    /\ replies = [r \in {} |-> NoReplies]
    /\ env_token = ""
    /\ settings_cache = NoSettings
    /\ IdleNormalize
    /\ IdleCategories

\* Another value, not yet part of the output.
AddLeaf ==
    /\ \E l \in Leaves : Grow(l.node, l.url)
    /\ UNCHANGED <<x_cyclic, x_phase, x_result, req_vars, n_vars, c_vars>>

\* [output] or [output, other]: a sequence whose first element is the output.
WrapList ==
    /\ \E tail \in {<<>>} \cup {<<j>> : j \in Others} :
        Grow(PyList(<<x_root>> \o tail), x_reach[x_root])
    /\ UNCHANGED <<x_cyclic, x_phase, x_result, req_vars, n_vars, c_vars>>

\* {k: output} or {k: output, k2: other}.
WrapDict ==
    /\ \E k \in OutputKeys :
        \/ LET entries == (k :> x_root) IN
           Grow(PyDict(entries), carried_by_mapping(entries, x_reach))
        \/ \E k2 \in OutputKeys \ {k}, j \in Others :
            LET entries == (k :> x_root) @@ (k2 :> j) IN
            Grow(PyDict(entries), carried_by_mapping(entries, x_reach))
    /\ UNCHANGED <<x_cyclic, x_phase, x_result, req_vars, n_vars, c_vars>>

\* l = [l]: a sequence whose first element is itself.
SelfList ==
    /\ Grow(PyList(<<Len(x_heap) + 1>>), None)
    /\ x_cyclic' = TRUE
    /\ UNCHANGED <<x_phase, x_result, req_vars, n_vars, c_vars>>

\* d = {k: d} or d = {k: d, k2: other}: a mapping with a key that refers back
\* to itself.
SelfDict ==
    /\ \E k \in OutputKeys :
        \/ Grow(PyDict(k :> (Len(x_heap) + 1)), None)
        \/ \E k2 \in OutputKeys \ {k}, j \in Others :
            Grow(PyDict((k :> (Len(x_heap) + 1)) @@ (k2 :> j)), None)
    /\ x_cyclic' = TRUE
    /\ UNCHANGED <<x_phase, x_result, req_vars, n_vars, c_vars>>

\* _extract_url(output), called as the service methods call it.
Extract ==
    /\ x_phase = "build"
    /\ x_result' = _extract_url(x_heap, x_root, 0)
    /\ x_phase' = "done"
    /\ UNCHANGED <<x_heap, x_root, x_reach, x_cyclic, req_vars, n_vars, c_vars>>

NextExtract ==
    \/ AddLeaf
    \/ WrapList
    \/ WrapDict
    \/ SelfList
    \/ SelfDict
    \/ Extract

SpecExtract == InitExtract /\ [][NextExtract]_vars


(***************************************************************************)
(* SpecNormalize: process_image on images of every small size and of sizes *)
(* around the default maximum, under the default and under small           *)
(* configured maxima (Settings reads max_dimension from the environment)   *)
(***************************************************************************)
MaxSide == 8

Sides == (1..MaxSide) \cup {2047, 2048, 2049, 3000, 4000, 4096}
ConfiguredMax == (1..MaxSide) \cup {max_dimension}
Modes == {"RGB", "RGBA", "L"}

InitNormalize ==
    /\ n_buffer \in {Img(m, w, h) : m \in Modes, w \in Sides, h \in Sides}
                    \cup {Garbage, EmptyBytes}
    /\ n_max \in ConfiguredMax
    /\ n_phase = "ready"
    /\ n_result = [exc |-> "none", text |-> <<>>, uri |-> NoUri]
    /\ IdleExtract
    /\ req = [r \in {} |-> NoUpload]
    /\ pc = [r \in {} |-> "start"]
    /\ image_buffer = [r \in {} |-> NoBuffer]
    /\ style_id = [r \in {} |-> DefaultStyle]
    /\ image_uri = [r \in {} |-> NoUri]
    /\ invocation = [r \in {} |-> NoInvocation]
    /\ output = [r \in {} |-> NoOutput]
    /\ response = [r \in {} |-> NoResponse]
    /\ fetched = [r \in {} |-> <<>>]
    /\ trace = [r \in {} |-> <<>>]
    /\ failed_at = [r \in {} |-> "none"]
    /\ replies = [r \in {} |-> NoReplies]
    /\ env_token = ""
    /\ settings_cache = NoSettings
    /\ IdleCategories

\* image_uri = await processor.process_image(image_buffer)
NormalizeImage ==
    /\ n_phase = "ready"
    /\ \E tie \in TieBreaks : n_result' = process_image(n_buffer, n_max, tie)
    /\ n_phase' = "done"
    /\ UNCHANGED <<n_buffer, n_max, req_vars, x_vars, c_vars>>

NextNormalize == NormalizeImage

SpecNormalize == InitNormalize /\ [][NextNormalize]_vars

(***************************************************************************)
(* SpecCategories: routes/categories.py, create_category and               *)
(* update_category on the product_categories table                         *)
(***************************************************************************)
\* Names are sequences of characters; str.strip() and str.lower() on them.
RECURSIVE lstrip(_)
lstrip(s) == IF Len(s) > 0 /\ s[1] = " " THEN lstrip(Tail(s)) ELSE s

RECURSIVE rstrip(_)
rstrip(s) == IF Len(s) > 0 /\ s[Len(s)] = " " THEN rstrip(SubSeq(s, 1, Len(s) - 1)) ELSE s

strip(s) == rstrip(lstrip(s))

lower_char(ch) == IF ch = "A" THEN "a" ELSE IF ch = "B" THEN "b" ELSE ch

RECURSIVE lower(_)
lower(s) == IF s = <<>> THEN <<>> ELSE <<lower_char(s[1])>> \o lower(Tail(s))

\* line 10-11.
_norm_name(name) == strip(name)

\* parent_id NULL.
NullId == 0

IntNone == [present |-> FALSE, n |-> 0]
IntOf(n) == [present |-> TRUE, n |-> n]

Unset == [set |-> FALSE, val |-> <<>>]
UnsetId == [set |-> FALSE, val |-> NullId]
Set(v) == [set |-> TRUE, val |-> v]

Row(name, parent_id, sort_order, layer_level) ==
    [name |-> name, parent_id |-> parent_id, sort_order |-> sort_order,
     layer_level |-> layer_level]

\* The ids of the rows there are.
Ids(store) == 1..Len(store)

\* lines 13-19: the rows with this parent_id (IS NULL for None).
_get_siblings(store, parent_id) == {i \in Ids(store) : store[i].parent_id = parent_id}

\* max(..., default=0) over a set of naturals.
max_of(S) == IF S = {} THEN 0 ELSE CHOOSE m \in S : \A n \in S : n <= m

Answer(op, status, detail) == [op |-> op, status |-> status, detail |-> detail]

MaxRows == 2

\* The names requests send: blank, a name, the same name in another case and
\* with a trailing blank, and another name.
Names == {<<" ">>, <<"a">>, <<"A">>, <<"a", " ">>, <<"b">>}

\* The bodies of POST /: layer_level is left to the handler.
CategoryCreates ==
    {[name |-> nm, parent_id |-> pid, sort_order |-> so, layer_level |-> IntNone] :
        nm \in Names, pid \in 0..MaxRows, so \in {IntNone, IntOf(1)}}

\* The bodies of PUT /{id}, as model_dump(exclude_unset=True) gives them: a
\* name, a parent_id (NULL or a row there is), or both.
CategoryUpdates(store) ==
    {[name |-> nm, parent_id |-> pid] :
        nm \in {Unset} \cup {Set(v) : v \in Names},
        pid \in {UnsetId} \cup {Set(i) : i \in {NullId} \cup Ids(store)}}
    \ {[name |-> Unset, parent_id |-> UnsetId]}

\* A store in which sibling names are unique: empty, or with one category.
InitCategories ==
    /\ c_store \in {<<>>, <<Row(<<"a">>, NullId, 1, 1)>>}
    /\ c_answer = [op |-> "none", status |-> 0, detail |-> "none"]
    /\ c_wrote = FALSE
    /\ IdleExtract
    /\ IdleNormalize
    /\ req = [r \in {} |-> NoUpload]
    /\ pc = [r \in {} |-> "start"]
    /\ image_buffer = [r \in {} |-> NoBuffer]
    /\ style_id = [r \in {} |-> DefaultStyle]
    /\ image_uri = [r \in {} |-> NoUri]
    /\ invocation = [r \in {} |-> NoInvocation]
    /\ output = [r \in {} |-> NoOutput]
    /\ response = [r \in {} |-> NoResponse]
    /\ fetched = [r \in {} |-> <<>>]
    /\ trace = [r \in {} |-> <<>>]
    /\ failed_at = [r \in {} |-> "none"]
    /\ replies = [r \in {} |-> NoReplies]
    /\ env_token = ""
    /\ settings_cache = NoSettings

\* lines 36-77.  The HTTPExceptions pass through `except Exception: raise`
\* with their own status; the error of .single() on a missing parent leaves
\* the handler and is answered 500.
create_category(category) ==
    /\ Len(c_store) < MaxRows
    /\ LET name == _norm_name(category.name)
           parent_id == category.parent_id
           siblings == _get_siblings(c_store, parent_id)
           max_sort == max_of({c_store[i].sort_order : i \in siblings})
           sort_order == IF category.sort_order.present THEN category.sort_order.n
                         ELSE max_sort + 1
           parent_missing == /\ ~category.layer_level.present
                             /\ parent_id # NullId
                             /\ parent_id \notin Ids(c_store)
           layer_level == IF category.layer_level.present THEN category.layer_level.n
                          ELSE IF parent_id # NullId /\ ~parent_missing
                          THEN c_store[parent_id].layer_level + 1
                          ELSE 1
           detail == IF name = <<>> THEN "Invalid name"
                     ELSE IF \E i \in siblings :
                                lower(strip(c_store[i].name)) = lower(name)
                     THEN "Duplicate category name under same parent"
                     ELSE IF parent_missing THEN "single: no rows"
                     ELSE "ok"
       IN  /\ c_store' = IF detail = "ok"
                         THEN Append(c_store, Row(name, parent_id, sort_order, layer_level))
                         ELSE c_store
           /\ c_wrote' = (detail = "ok")
           /\ c_answer' = Answer("create",
                                 IF detail = "ok" THEN 200
                                 ELSE IF detail = "single: no rows" THEN 500 ELSE 400,
                                 detail)
    /\ UNCHANGED <<req_vars, x_vars, n_vars>>

\* lines 101-136.  Line 106 sends the update of the row before anything is
\* validated; what follows reads the store as that update left it.  Every
\* exception raised in the body, the HTTPExceptions included, is answered 500
\* with its text as detail.
update_category(category_id, data) ==
    LET exists == category_id \in Ids(c_store)
        written == IF exists
                   THEN [c_store EXCEPT ![category_id] =
                            [@ EXCEPT !.name = IF data.name.set THEN data.name.val ELSE @,
                                      !.parent_id = IF data.parent_id.set
                                                    THEN data.parent_id.val ELSE @]]
                   ELSE c_store
        parent_id == IF data.parent_id.set THEN data.parent_id.val
                     ELSE written[category_id].parent_id
        name == IF data.name.set THEN _norm_name(data.name.val)
                ELSE written[category_id].name
        detail == IF data.name.set /\ _norm_name(data.name.val) = <<>> THEN "Invalid name"
                  ELSE IF ~exists THEN "Category not found"
                  ELSE IF \E i \in _get_siblings(written, parent_id) \ {category_id} :
                             lower(strip(written[i].name)) = lower(strip(name))
                  THEN "Duplicate category name under same parent"
                  ELSE IF /\ data.parent_id.set /\ parent_id # NullId
                          /\ parent_id \notin Ids(written)
                  THEN "Parent not found"
                  ELSE "ok"
    IN  /\ c_store' = written
        /\ c_wrote' = (written # c_store)
        /\ c_answer' = Answer("update", IF detail = "ok" THEN 200 ELSE 500, detail)
        /\ UNCHANGED <<req_vars, x_vars, n_vars>>

NextCategories ==
    \/ \E category \in CategoryCreates : create_category(category)
    \/ \E category_id \in 1..MaxRows, data \in CategoryUpdates(c_store) :
           update_category(category_id, data)

SpecCategories == InitCategories /\ [][NextCategories]_vars

(***************************************************************************)
(* Properties                                                              *)
(***************************************************************************)
InTrace(r, stage) == \E i \in DOMAIN trace[r] : trace[r][i] = stage

IsError(x, code) ==
    /\ x.kind = "envelope"
    /\ ~x.success
    /\ x.errorCode = Some(<<code>>)
    /\ ~x.url.present

\* C1: a failure (an exception) at any stage after the image source was
\* selected -- the upload read, the URL fetch, style parsing, normalization,
\* the construction of the inference client, the inference call, or the
\* missing-url check after extraction -- ends the request with the envelope
\* success=false, errorCode=AI_ERROR and no url; no response is an unhandled
\* fault, and every finished request has an envelope.
C1_FailureYieldsAiError ==
    \A r \in DOMAIN pc :
        /\ response[r].kind # "unhandled"
        /\ pc[r] = "done" => response[r].kind = "envelope"
        /\ failed_at[r] # "none" => pc[r] = "done" /\ IsError(response[r], "AI_ERROR")

\* Scenario E: the inference call returned [], extraction found nothing.
C1_Witness ==
    \E r \in DOMAIN pc :
        /\ failed_at[r] = "_extract_url"
        /\ output[r] = Out(<<PyList(<<>>)>>, 1)
        /\ IsError(response[r], "AI_ERROR")

\* C2: every response is either (success, a url, no errorCode and no error) or
\* (no success, an errorCode, no url).
C2_EnvelopeExclusive ==
    \A r \in DOMAIN pc :
        pc[r] = "done" =>
            LET x == response[r] IN
            /\ x.kind = "envelope"
            /\ \/ x.success /\ x.url.present /\ ~x.errorCode.present /\ ~x.error.present
               \/ ~x.success /\ x.errorCode.present /\ ~x.url.present

C2_Witness ==
    \E r \in DOMAIN pc :
        /\ pc[r] = "done"
        /\ response[r].kind = "envelope"
        /\ response[r].success
        /\ response[r].url = Some(UrlB)

\* C3: an upload that is present and non-empty is read and no GET is issued;
\* otherwise, if a URL is present, the URL is fetched; UPLOAD_FAILED is
\* answered only when neither source yielded bytes.
C3_SourceSelection ==
    \A r \in DOMAIN pc :
        LET nonempty == req[r].image.present /\ req[r].image.bytes.kind # "empty" IN
        /\ (pc[r] # "start" /\ nonempty) =>
                trace[r][1] = "read" /\ fetched[r] = <<>> /\ ~InTrace(r, "get")
        /\ (pc[r] # "start" /\ ~nonempty /\ Truthy(req[r].imageUrl)) =>
                trace[r][1] = "get"
        /\ (pc[r] = "done" /\ IsError(response[r], "UPLOAD_FAILED")) =>
                not_buffer(image_buffer[r])

\* C4: a request with neither an upload nor a URL is answered 400 with
\* success=false and errorCode=UPLOAD_FAILED, and at no point of it has style
\* parsing, normalization or an inference call been entered.
C4_NoSourceFailsFirst ==
    \A r \in DOMAIN pc :
        (~req[r].image.present /\ ~Truthy(req[r].imageUrl)) =>
            /\ trace[r] = <<>>
            /\ pc[r] = "done" =>
                IsError(response[r], "UPLOAD_FAILED") /\ response[r].status = 400

C4_Witness ==
    \E r \in DOMAIN pc :
        /\ ~req[r].image.present
        /\ req[r].imageUrl = None
        /\ pc[r] = "done"
        /\ response[r] = upload_failed_response

\* C5: when the GET of imageUrl answers a non-2xx status, the request has
\* issued exactly one GET, enters neither normalization nor the inference
\* call, and is answered success=false, errorCode=AI_ERROR, with the status
\* text of the HTTP error in the error field.
C5_HttpErrorIsFinal ==
    \A r \in DOMAIN pc :
        (fetched[r] # <<>> /\ (fetched[r][1] < 200 \/ fetched[r][1] >= 300)) =>
            /\ Len(fetched[r]) = 1
            /\ ~InTrace(r, "process_image")
            /\ ~InTrace(r, "run")
            /\ pc[r] = "done"
            /\ IsError(response[r], "AI_ERROR")
            /\ response[r].error.present
            /\ \E i \in DOMAIN response[r].error.text :
                    response[r].error.text[i] = ToString(fetched[r][1])

C5_Witness ==
    \E r \in DOMAIN pc :
        /\ fetched[r] = <<404>>
        /\ pc[r] = "done"
        /\ IsError(response[r], "AI_ERROR")

\* C6: a cartoonize request whose image is usable is never rejected because
\* of meta: whatever meta holds, style parsing does not fail, and a meta that
\* names none of the three styles leaves the default toon_ink.
RecognisedStyles == {JString("toon_ink"), JString("toon_mochi"), JString("toon_anime")}

C6_StyleNeverRejects ==
    \A r \in DOMAIN pc :
        (req[r].op = "cartoonize" /\ image_buffer[r].kind = "image") =>
            /\ failed_at[r] # "parse_meta"
            /\ pc[r] = "done" => InTrace(r, "process_image")
            /\ invocation[r].model # "none" =>
                \/ style_id[r] \in RecognisedStyles
                \/ invocation[r].model = ModelInk

\* C7: the invocation passed to the inference call is the documented function
\* of (operation, selector): toon_mochi, toon_anime, toon_ink-and-everything-
\* else for cartoonize, the fixed one for remove-background.
C7_DispatchTable ==
    \A r \in DOMAIN pc :
        invocation[r].model # "none" =>
            LET inv == invocation[r]
                uri == image_uri[r]
                sid == style_id[r]
            IN  IF req[r].op = "remove_background"
                THEN /\ inv.model = ModelRemoveBg
                     /\ DOMAIN inv.input = {"image", "format", "background_type"}
                     /\ inv.input.image = uri
                     /\ inv.input.format = "png"
                     /\ inv.input.background_type = "rgba"
                ELSE IF sid = JString("toon_mochi")
                THEN /\ inv.model = ModelMochi
                     /\ DOMAIN inv.input = {"image"}
                     /\ inv.input.image = uri
                ELSE IF sid = JString("toon_anime")
                THEN /\ inv.model = ModelAnime
                     /\ DOMAIN inv.input = {"image", "aspect_ratio", "output_format", "go_fast"}
                     /\ inv.input.image = <<uri>>
                     /\ inv.input.aspect_ratio = "match_input_image"
                     /\ inv.input.output_format = "png"
                     /\ inv.input.go_fast = TRUE
                ELSE /\ inv.model = ModelInk
                     /\ DOMAIN inv.input = {"input_image", "aspect_ratio"}
                     /\ inv.input.input_image = uri
                     /\ inv.input.aspect_ratio = "match_input_image"

\* A selector that is not even a string reaches the default dispatch.
C7_Witness ==
    \E r \in DOMAIN pc :
        /\ style_id[r] = JNum(7)
        /\ invocation[r].model = ModelInk
        /\ image_uri[r] = DataUri("RGB", 2048, 1536)

\* C8: the stages of a request are entered in the order acquire, (parse),
\* normalize, construct, invoke, extract, each at most once; the inference
\* call is made only with bytes acquired and a data URI from normalization,
\* and a request whose call or extraction failed is finished.
StageRank(stage) ==
    CASE stage \in {"read", "get"} -> 1
      [] stage = "parse_meta" -> 2
      [] stage = "process_image" -> 3
      [] stage = "ReplicateService" -> 4
      [] stage = "run" -> 5
      [] stage = "_extract_url" -> 6

C8_StageOrder ==
    \A r \in DOMAIN pc :
        /\ \A i, j \in DOMAIN trace[r] :
                i < j => StageRank(trace[r][i]) < StageRank(trace[r][j])
        /\ InTrace(r, "run") =>
                /\ InTrace(r, "read") \/ InTrace(r, "get")
                /\ ~not_buffer(image_buffer[r])
                /\ InTrace(r, "process_image")
                /\ image_uri[r].mime = "image/png"
        /\ failed_at[r] \in {"run", "_extract_url"} => pc[r] = "done"

C8_Witness ==
    \E r \in DOMAIN pc :
        /\ failed_at[r] = "run"
        /\ pc[r] = "done"
        /\ trace[r] = <<"get", "parse_meta", "process_image", "ReplicateService", "run">>

\* C9: for an acyclic output built from the documented shapes around a URL
\* (reachable through first elements of sequences and the priority order of
\* mapping keys), _extract_url returns exactly that URL.
C9_ExtractRoundTrip ==
    (x_phase = "done" /\ ~x_cyclic /\ x_reach[x_root].present) =>
        x_result = Return(x_reach[x_root])

\* Scenario D: {"output": {"url": "https://x/y.png"}}.
C9_Witness ==
    /\ x_phase = "done"
    /\ x_heap = <<PyStr(UrlA), PyDict("url" :> 1), PyDict("output" :> 2)>>
    /\ x_root = 3
    /\ x_result = Return(Some(UrlA))

\* C10: _extract_url never raises, whatever the output: it returns a URL or
\* None.
C10_ExtractNeverRaises ==
    x_phase = "done" => x_result.exc = "none"


\* C11: for a decodable w x h image and a configured maximum M: if w > M or
\* h > M the normalized image has both sides in 1..M and each side within one
\* pixel of the exactly scaled side (scale M / max(w, h)); otherwise it keeps
\* exactly w x h.
C11_NormalizedSize ==
    (n_phase = "done" /\ n_buffer.kind = "image") =>
        LET w == n_buffer.width
            h == n_buffer.height
            long == IF w >= h THEN w ELSE h
            o == n_result.uri
        IN  /\ n_result.exc = "none"
            /\ IF w > n_max \/ h > n_max
               THEN /\ o.width >= 1 /\ o.width <= n_max
                    /\ o.height >= 1 /\ o.height <= n_max
                    /\ Abs(o.width * long - n_max * w) < long
                    /\ Abs(o.height * long - n_max * h) < long
               ELSE o.width = w /\ o.height = h

\* Scenario A: 4000 x 3000 under the default maximum becomes 2048 x 1536.
C11_Witness ==
    /\ n_phase = "done"
    /\ n_buffer = Img("RGB", 4000, 3000)
    /\ n_max = max_dimension
    /\ n_result.uri = DataUri("RGB", 2048, 1536)

\* What one request acquires when it is handled alone and the outside world
\* answers it with rep (routes/ai.py lines 44-54).
SoloAcquire(q, rep) ==
    IF q.image.present
    THEN IF rep.read = "error"
         THEN [exc |-> Exc("OSError", <<"read failed">>), buffer |-> NoBuffer]
         ELSE [exc |-> NoExc, buffer |-> q.image.bytes]
    ELSE IF Truthy(q.imageUrl)
    THEN IF rep.get.kind = "connect_error"
         THEN [exc |-> Exc("ConnectError", <<"All connection attempts failed">>),
               buffer |-> NoBuffer]
         ELSE LET e == raise_for_status(rep.get.status) IN
              IF e.type # "none" THEN [exc |-> e, buffer |-> NoBuffer]
              ELSE [exc |-> NoExc, buffer |-> rep.get.body]
    ELSE [exc |-> NoExc, buffer |-> NoBuffer]

\* The style one request selects when it is handled alone.
SoloStyle(q) ==
    IF q.op = "cartoonize" THEN parse_style(q.meta)
    ELSE [exc |-> "none", style_id |-> DefaultStyle]

\* The response of one request handled alone, a function of the request, of
\* the replies it received and of the configured token only.
SoloResponse(q, rep, token) ==
    LET a == SoloAcquire(q, rep)
        p == SoloStyle(q)
        n == process_image(a.buffer, max_dimension, rep.tie)
        url == service_return(_extract_url(rep.run.out.heap, rep.run.out.root, 0))
    IN  IF a.exc.type # "none" THEN handler_except(q.op, a.exc)
        ELSE IF not_buffer(a.buffer) THEN upload_failed_response
        ELSE IF p.exc # "none"
        THEN handler_except(q.op, Exc(p.exc, <<"object has no attribute 'get'">>))
        ELSE IF n.exc # "none" THEN handler_except(q.op, Exc(n.exc, n.text))
        ELSE IF token = ""
        THEN handler_except(q.op, Exc("ValueError", <<"Missing REPLICATE_API_TOKEN">>))
        ELSE IF rep.run.kind = "error"
        THEN handler_except(q.op, Exc("ReplicateError", <<"prediction failed">>))
        ELSE IF url.exc # "none" THEN handler_except(q.op, service_exc(url))
        ELSE success_response(url.val)

\* C12: requests handled concurrently do not affect one another: whatever the
\* interleaving of their steps, the image bytes, the style and the invocation
\* a request works with, and the response it is answered with, are those it
\* would have if it were handled alone with the same replies from outside.
C12_RequestsIndependent ==
    \A r \in DOMAIN pc :
        /\ pc[r] \in {"acquired", "parsed", "normalized", "constructed", "invoked"} =>
               image_buffer[r] = SoloAcquire(req[r], replies[r]).buffer
        /\ pc[r] \in {"parsed", "normalized", "constructed", "invoked"} =>
               style_id[r] = SoloStyle(req[r]).style_id
        /\ pc[r] \in {"normalized", "constructed", "invoked"} =>
               image_uri[r] = process_image(SoloAcquire(req[r], replies[r]).buffer,
                                            max_dimension, replies[r].tie).uri
        /\ pc[r] = "invoked" =>
               /\ output[r] = replies[r].run.out
               /\ invocation[r] = Dispatch(req[r].op, image_uri[r], SoloStyle(req[r]).style_id)
        /\ pc[r] = "done" => response[r] = SoloResponse(req[r], replies[r], env_token)

\* One request has been answered with the URL of its own output while another,
\* with another image and another output, is between the call and the extraction.
C12_Witness ==
    /\ DOMAIN pc = ConcurrentRequests
    /\ pc["r1"] = "done" /\ response["r1"].kind = "envelope"
    /\ response["r1"].url = Some(UrlA)
    /\ pc["r2"] = "invoked"
    /\ output["r2"] # output["r1"]
    /\ _extract_url(output["r2"].heap, output["r2"].root, 0) = Return(Some(UrlB))
    /\ image_uri["r1"] # image_uri["r2"]

\* C13: for a mapping output the keys url, image, output, result, href are
\* probed in that order and the result is what the earliest of them gives
\* whose value yields a URL (or whose extraction fails); when none does the
\* result is None.  Keys outside the list are not consulted: an acyclic
\* mapping gives exactly the URL carried under the earliest probed key that
\* carries one, None when only another key carries one.
C13_KeyPriority ==
    (x_phase = "done" /\ x_heap[x_root].kind = "dict") =>
        LET entries == x_heap[x_root].entries
            decisive == {i \in 1..Len(KeyOrder) :
                            /\ KeyOrder[i] \in DOMAIN entries
                            /\ LET c == _extract_url(x_heap, entries[KeyOrder[i]], 1)
                               IN  c.exc # "none" \/ Truthy(c.val)}
        IN  /\ IF decisive = {} THEN x_result = Return(None)
               ELSE x_result = _extract_url(x_heap,
                        entries[KeyOrder[CHOOSE i \in decisive : \A j \in decisive : i <= j]], 1)
            /\ ~x_cyclic => x_result = Return(carried_by_mapping(entries, x_reach))

\* {"href": UrlA, "url": UrlB} gives UrlB.
C13_Witness ==
    /\ x_phase = "done"
    /\ x_heap = <<PyStr(UrlB), PyStr(UrlA), PyDict(("href" :> 2) @@ ("url" :> 1))>>
    /\ x_root = 3
    /\ x_result = Return(Some(UrlB))

\* C14: for a non-empty sequence output the result is exactly that of the
\* extraction of its first element; later elements are not examined, and
\* there is no fall-through to url() or str(): an acyclic sequence gives the
\* URL its first element carries, None when the first element carries none.
C14_FirstElementOnly ==
    (x_phase = "done" /\ x_heap[x_root].kind = "list" /\ Len(x_heap[x_root].items) > 0) =>
        LET items == x_heap[x_root].items IN
        /\ x_result = _extract_url(x_heap, items[1], 1)
        /\ ~x_cyclic => x_result = Return(x_reach[items[1]])

\* [None, UrlA] gives None.
C14_Witness ==
    /\ x_phase = "done"
    /\ x_heap = <<PyStr(UrlA), PyNone, PyList(<<2, 1>>)>>
    /\ x_root = 3
    /\ x_result = Return(None)

\* C15: no two categories with the same parent_id have names that are equal
\* after trimming and case-folding, after any sequence of create_category and
\* update_category calls, whatever they answered; and a call that answered
\* 'Duplicate category name under same parent' or 'Invalid name' has written
\* nothing to the store.
C15_SiblingNamesUnique ==
    /\ \A i, j \in Ids(c_store) :
           (i # j /\ c_store[i].parent_id = c_store[j].parent_id) =>
               lower(strip(c_store[i].name)) # lower(strip(c_store[j].name))
    /\ c_answer.detail \in {"Duplicate category name under same parent", "Invalid name"} =>
           ~c_wrote

====
